---------------------------- MODULE Spec2Model ----------------------------
(***************************************************************************)
(* ISODateTime: formatting of a system_clock time_point as an ISO 8601     *)
(* string, local or UTC, to the day, the second or the millisecond.        *)
(*                                                                         *)
(* Representation.  TLC's integers are 32 bits wide while time_t and the   *)
(* tick count of a time_point are 64 bits wide, and the year 10000 lies    *)
(* beyond 2^31 seconds.  A wide count is therefore kept as a mixed-radix   *)
(* numeral over days:                                                      *)
(*    a time_point  [d, ms]  stands for  d * 86400000 + ms  milliseconds   *)
(*                           since the epoch, 0 <= ms < 86400000;          *)
(*    a time_t      [d, s]   stands for  d * 86400 + s  seconds since the  *)
(*                           epoch, 0 <= s < 86400.                        *)
(* The C++ operators / and % on the wide counts (truncation toward zero)   *)
(* are computed on the numerals.  A std::string is a sequence of           *)
(* one-character strings.                                                  *)
(***************************************************************************)
EXTENDS Integers, Sequences, FiniteSets, TLC

VARIABLES
    clock,      \* what std::chrono::system_clock::now() returns at this moment
    tz,         \* the timezone rule localtime_r applies (environment)
    conv_ok,    \* whether the platform's localtime_r / gmtime_r succeeds
    arg,        \* the optional time_point the explicit calls are given
    out,        \* per entry point: the string the call with arg returned
    prev,       \* the call before the last one (clock specification)
    last,       \* the last call made (clock specification)
    pc,         \* per thread: position inside the entry point
    job,        \* per thread: the entry point called and its argument
    now,        \* per thread: the local "now" of the call
    tmbuf,      \* the std::tm objects the conversions fill, by owner
    ret         \* per thread: the string returned

vars == <<clock, tz, conv_ok, arg, out, prev, last, pc, job, now, tmbuf, ret>>

---------------------------------------------------------------------------
(* Bounds of the model *)

\* explicit instants are taken up to this many seconds around each base point
SpreadSeconds == 1

\* the clock is observed up to this many seconds after each of its base points
ClockSteps == 1

\* number of threads calling concurrently
NThreads == 2

---------------------------------------------------------------------------
(* Constants of the program and of the platform calendar *)

\* "% 1000" of the millisecond computation
MsPerSecond == 1000

\* std::setw(3)
MsWidth == 3

SecondsPerDay == 86400

MsPerDay == SecondsPerDay * MsPerSecond

---------------------------------------------------------------------------
(* std::optional<time_point> *)

nullopt == [has |-> FALSE, d |-> 0, ms |-> 0]

Some(tp) == [has |-> TRUE, d |-> tp.d, ms |-> tp.ms]

Value(opt) == [d |-> opt.d, ms |-> opt.ms]

---------------------------------------------------------------------------
(* Wide arithmetic *)

\* t + k seconds, for a time_t t = [d, s] and a small integer k
AddSeconds(t, k) ==
    LET total == t.s + k
    IN  [d |-> t.d + (total \div SecondsPerDay), s |-> total % SecondsPerDay]

\* a < b for two time_t values
SecLess(a, b) == a.d < b.d \/ (a.d = b.d /\ a.s < b.s)

\* a <= b for two time_points
TpLeq(a, b) == a.d < b.d \/ (a.d = b.d /\ a.ms <= b.ms)

\* whether the count of a time_point is negative (an instant before the epoch)
IsNegative(tp) == tp.d < 0

\* std::chrono::system_clock::to_time_t: duration_cast<seconds>, which
\* truncates toward zero.  The floor is [d, ms \div 1000]; a negative count
\* that is not a whole second truncates to the second above its floor.
to_time_t(tp) ==
    LET floorSec == [d |-> tp.d, s |-> tp.ms \div MsPerSecond]
    IN  IF IsNegative(tp) /\ tp.ms % MsPerSecond # 0
        THEN AddSeconds(floorSec, 1)
        ELSE floorSec

\* duration_cast<milliseconds>(now.time_since_epoch()) % 1000: the C++
\* remainder takes the sign of the dividend.
MillisecondsOf(tp) ==
    LET r == tp.ms % MsPerSecond
    IN  IF IsNegative(tp) /\ r # 0 THEN r - MsPerSecond ELSE r

---------------------------------------------------------------------------
(* Character strings *)

DigitChars == <<"0", "1", "2", "3", "4", "5", "6", "7", "8", "9">>

RECURSIVE ToDecimal(_)
\* the decimal digits of a natural number
ToDecimal(n) ==
    IF n < 10 THEN <<DigitChars[n + 1]>>
    ELSE ToDecimal(n \div 10) \o <<DigitChars[(n % 10) + 1]>>

\* operator<< of an integer: a minus sign, then the digits
Signed(n) == IF n < 0 THEN <<"-">> \o ToDecimal(-n) ELSE ToDecimal(n)

\* a field of width w: fill characters are put in front of a shorter text
\* (the stream's default adjustment), a longer text is written whole
PadLeft(s, w, fill) ==
    IF Len(s) >= w THEN s ELSE [i \in 1..(w - Len(s)) |-> fill] \o s

\* the field written without std::setw(3) and std::setfill('0')
get_formatted_milliseconds_unpadded(milliseconds) == Signed(milliseconds)

get_formatted_milliseconds(milliseconds) ==
    PadLeft(Signed(milliseconds), MsWidth, "0")

---------------------------------------------------------------------------
(* The calendar breakdown: std::tm, with C's conventions (tm_year counts     *)
(* from 1900, tm_mon from 0).                                                *)

\* std::tm tm{}: every field zero
ZeroTm == [tm_year |-> 0, tm_mon |-> 0, tm_mday |-> 0,
           tm_hour |-> 0, tm_min |-> 0, tm_sec |-> 0]

\* The proleptic Gregorian date of day number z (days since 1970-01-01), as
\* gmtime_r computes it: <<year, month 1..12, day 1..31>>.
CivilFromDays(z) ==
    LET zz  == z + 719468
        era == zz \div 146097
        doe == zz - era * 146097
        yoe == (doe - (doe \div 1460) + (doe \div 36524) - (doe \div 146096)) \div 365
        doy == doe - (365 * yoe + (yoe \div 4) - (yoe \div 100))
        mp  == (5 * doy + 2) \div 153
        dd  == doy - ((153 * mp + 2) \div 5) + 1
        mm  == IF mp < 10 THEN mp + 3 ELSE mp - 9
        yy  == yoe + era * 400 + (IF mm <= 2 THEN 1 ELSE 0)
    IN  <<yy, mm, dd>>

\* the broken-down time of a time_t taken as a UTC count
BreakDown(t) ==
    LET ymd == CivilFromDays(t.d)
    IN  [tm_year |-> ymd[1] - 1900, tm_mon |-> ymd[2] - 1, tm_mday |-> ymd[3],
         tm_hour |-> t.s \div 3600, tm_min |-> (t.s % 3600) \div 60,
         tm_sec |-> t.s % 60]

\* The timezone rules of the model.  A rule has a standard offset and, between
\* the time_t values dst_from (included) and dst_to (excluded), a summer
\* offset; offsets are seconds east of UTC.
Zones ==
    { [name |-> "utc", std |-> 0, dst |-> 0,
       dst_from |-> [d |-> 0, s |-> 0], dst_to |-> [d |-> 0, s |-> 0]],
      [name |-> "east_0530", std |-> 19800, dst |-> 19800,
       dst_from |-> [d |-> 0, s |-> 0], dst_to |-> [d |-> 0, s |-> 0]],
      [name |-> "west_1000", std |-> -36000, dst |-> -36000,
       dst_from |-> [d |-> 0, s |-> 0], dst_to |-> [d |-> 0, s |-> 0]],
      \* summer time from 2024-03-31T01:00:00Z to 2024-10-27T01:00:00Z
      [name |-> "summer_0100", std |-> 0, dst |-> 3600,
       dst_from |-> [d |-> 19813, s |-> 3600], dst_to |-> [d |-> 20023, s |-> 3600]] }

\* the offset the rule z has in effect at time_t t
UtcOffset(z, t) ==
    IF ~SecLess(t, z.dst_from) /\ SecLess(t, z.dst_to) THEN z.dst ELSE z.std

\* A copy-and-paste slip: the local conversion calling the UTC one.
to_local_tm_as_utc(t) ==
    IF conv_ok.local THEN BreakDown(t) ELSE ZeroTm

\* to_local_tm: localtime_r fills the caller's tm with the breakdown of t in
\* the local zone.  Its result is not looked at: when it fails the tm stays
\* as it was value-initialised.
to_local_tm(t) ==
    IF conv_ok.local THEN BreakDown(AddSeconds(t, UtcOffset(tz, t))) ELSE ZeroTm

\* to_utc_tm: gmtime_r, likewise.
to_utc_tm(t) ==
    IF conv_ok.utc THEN BreakDown(t) ELSE ZeroTm

\* a two-digit field written without its leading zero
OneOrTwoDigits(n) == Signed(n)

\* %m %d %H %M %S: two digits, zero-padded
TwoDigits(n) == PadLeft(Signed(n), 2, "0")

\* %Y: the year as a decimal number, as many digits as it has
YearDigits(tm) == Signed(tm.tm_year + 1900)

\* std::put_time(&tm, "%F"): %Y-%m-%d
put_time_F(tm) ==
    YearDigits(tm) \o <<"-">> \o TwoDigits(tm.tm_mon + 1) \o <<"-">> \o TwoDigits(tm.tm_mday)

\* std::put_time(&tm, "%FT%H:%M:%S")
put_time_FTHMS(tm) ==
    put_time_F(tm) \o <<"T">> \o TwoDigits(tm.tm_hour) \o <<":">>
        \o TwoDigits(tm.tm_min) \o <<":">> \o TwoDigits(tm.tm_sec)

---------------------------------------------------------------------------
(* The entry points.  Each returns the string and, for the account of the   *)
(* clock reads, how often the call read the system clock.                    *)

\* a resolver that reads the clock whether or not an instant was supplied
get_input_time_point_always_reading(time_point) ==
    [tp |-> clock, reads |-> 1]

get_input_time_point_or_current_system_time(time_point) ==
    IF time_point.has
    THEN [tp |-> Value(time_point), reads |-> 0]
    ELSE [tp |-> clock, reads |-> 1]

get_current_iso_date(time_point) ==
    LET r       == get_input_time_point_or_current_system_time(time_point)
        seconds == to_time_t(r.tp)
        tm      == to_local_tm(seconds)
    IN  [str |-> put_time_F(tm), reads |-> r.reads]

get_current_iso_date_time(time_point) ==
    LET r       == get_input_time_point_or_current_system_time(time_point)
        seconds == to_time_t(r.tp)
        tm      == to_local_tm(seconds)
    IN  [str |-> put_time_FTHMS(tm), reads |-> r.reads]

\* the timestamp taking its calendar fields from the UTC conversion
get_current_iso_date_timestamp_from_utc(time_point) ==
    LET r            == get_input_time_point_or_current_system_time(time_point)
        seconds      == to_time_t(r.tp)
        milliseconds == MillisecondsOf(r.tp)
        tm           == to_utc_tm(seconds)
    IN  [str |-> put_time_FTHMS(tm) \o <<".">> \o get_formatted_milliseconds(milliseconds),
         reads |-> r.reads]

get_current_iso_date_timestamp(time_point) ==
    LET r            == get_input_time_point_or_current_system_time(time_point)
        seconds      == to_time_t(r.tp)
        milliseconds == MillisecondsOf(r.tp)
        tm           == to_local_tm(seconds)
    IN  [str |-> put_time_FTHMS(tm) \o <<".">> \o get_formatted_milliseconds(milliseconds),
         reads |-> r.reads]

get_current_utc_iso_date(time_point) ==
    LET r       == get_input_time_point_or_current_system_time(time_point)
        seconds == to_time_t(r.tp)
        tm      == to_utc_tm(seconds)
    IN  [str |-> put_time_F(tm), reads |-> r.reads]

\* the UTC date-time without its suffix
get_current_utc_iso_date_time_no_suffix(time_point) ==
    LET r       == get_input_time_point_or_current_system_time(time_point)
        seconds == to_time_t(r.tp)
        tm      == to_utc_tm(seconds)
    IN  [str |-> put_time_FTHMS(tm), reads |-> r.reads]

get_current_utc_iso_date_time(time_point) ==
    LET r       == get_input_time_point_or_current_system_time(time_point)
        seconds == to_time_t(r.tp)
        tm      == to_utc_tm(seconds)
    IN  [str |-> put_time_FTHMS(tm) \o <<"Z">>, reads |-> r.reads]

get_current_utc_iso_date_timestamp(time_point) ==
    LET r            == get_input_time_point_or_current_system_time(time_point)
        seconds      == to_time_t(r.tp)
        milliseconds == MillisecondsOf(r.tp)
        tm           == to_utc_tm(seconds)
    IN  [str |-> put_time_FTHMS(tm) \o <<".">> \o get_formatted_milliseconds(milliseconds)
                    \o <<"Z">>,
         reads |-> r.reads]

\* the overloads without a parameter
get_current_iso_date_noarg == get_current_iso_date(nullopt)

get_current_iso_date_time_noarg == get_current_iso_date_time(nullopt)

get_current_iso_date_timestamp_noarg == get_current_iso_date_timestamp(nullopt)

get_current_utc_iso_date_noarg == get_current_utc_iso_date(nullopt)

get_current_utc_iso_date_time_noarg == get_current_utc_iso_date_time(nullopt)

get_current_utc_iso_date_timestamp_noarg == get_current_utc_iso_date_timestamp(nullopt)

LocalOps == {"get_current_iso_date", "get_current_iso_date_time",
             "get_current_iso_date_timestamp"}

UtcOps == {"get_current_utc_iso_date", "get_current_utc_iso_date_time",
           "get_current_utc_iso_date_timestamp"}

Ops == LocalOps \cup UtcOps

DateOps == {"get_current_iso_date", "get_current_utc_iso_date"}

TimestampOps == {"get_current_iso_date_timestamp", "get_current_utc_iso_date_timestamp"}

---------------------------------------------------------------------------
(* Inputs *)

\* the time_t values the explicit instants lie around
BasePoints ==
    { [d |-> 0, s |-> 0],               \* 1970-01-01T00:00:00Z, the epoch
      [d |-> 19727, s |-> 11045],       \* 2024-01-05T03:04:05Z
      [d |-> 20023, s |-> 3600],        \* 2024-10-27T01:00:00Z, summer time ends
      [d |-> 2932897, s |-> 0],         \* 10000-01-01T00:00:00Z
      [d |-> -354285, s |-> 0] }        \* 1000-01-01T00:00:00Z

\* milliseconds past the second
MsSamples == {0, 6, 7, 500, 999}

\* the time_point  t seconds + ms milliseconds
TimePoint(t, ms) == [d |-> t.d, ms |-> t.s * MsPerSecond + ms]

Instants ==
    { TimePoint(AddSeconds(b, k), ms) :
        b \in BasePoints, k \in (-SpreadSeconds)..SpreadSeconds, ms \in MsSamples }

ConvOutcomes == [local : BOOLEAN, utc : BOOLEAN]

NotCalled == [called |-> FALSE, str |-> << >>]

NoCall == [entry |-> "none", op |-> "none", arg |-> nullopt, reads |-> 0, str |-> << >>,
           at |-> [d |-> 0, ms |-> 0]]

\* the time_t values the observations of the system clock start at
ClockBases ==
    { [d |-> 19813, s |-> 3599],        \* 2024-03-31T00:59:59Z, a second before summer time begins
      [d |-> 20023, s |-> 3599] }       \* 2024-10-27T00:59:59Z, a second before summer time ends

ClockSamples ==
    { TimePoint(AddSeconds(b, k), ms) : b \in ClockBases, k \in 0..ClockSteps, ms \in {7, 500} }

\* the observations of the clock in the specification of the clock reads:
\* the half seconds around 2024-10-27T01:00:00Z
ReadsClockSamples == { c \in ClockSamples : c.d = 20023 /\ c.ms % MsPerSecond = 500 }

\* what the entry points with a parameter are called with in the specification
\* of the clock reads: nothing, or one of two instants
ClockArgs ==
    { nullopt, Some(TimePoint([d |-> 19727, s |-> 11045], 6)),
      Some(TimePoint([d |-> -1, s |-> 86399], 993)) }

---------------------------------------------------------------------------
(* Specification Spec: the six entry points called with one explicit        *)
(* instant, in any order.                                                    *)

Init ==
    /\ clock = TimePoint([d |-> 0, s |-> 0], 0)
    /\ tz \in Zones
    /\ conv_ok \in ConvOutcomes
    /\ arg \in {Some(i) : i \in Instants}
    /\ out = [op \in Ops |-> NotCalled]
    /\ prev = NoCall
    /\ last = NoCall
    /\ pc = << >>
    /\ job = << >>
    /\ now = << >>
    /\ tmbuf = << >>
    /\ ret = << >>

Returned(op, r) ==
    /\ out' = [out EXCEPT ![op] = [called |-> TRUE, str |-> r.str]]
    /\ UNCHANGED <<clock, tz, conv_ok, arg, prev, last, pc, job, now, tmbuf, ret>>

Call_get_current_iso_date ==
    Returned("get_current_iso_date", get_current_iso_date(arg))

Call_get_current_iso_date_time ==
    Returned("get_current_iso_date_time", get_current_iso_date_time(arg))

Call_get_current_iso_date_timestamp ==
    Returned("get_current_iso_date_timestamp", get_current_iso_date_timestamp(arg))

Call_get_current_utc_iso_date ==
    Returned("get_current_utc_iso_date", get_current_utc_iso_date(arg))

Call_get_current_utc_iso_date_time ==
    Returned("get_current_utc_iso_date_time", get_current_utc_iso_date_time(arg))

Call_get_current_utc_iso_date_timestamp ==
    Returned("get_current_utc_iso_date_timestamp", get_current_utc_iso_date_timestamp(arg))

Next ==
    \/ Call_get_current_iso_date
    \/ Call_get_current_iso_date_time
    \/ Call_get_current_iso_date_timestamp
    \/ Call_get_current_utc_iso_date
    \/ Call_get_current_utc_iso_date_time
    \/ Call_get_current_utc_iso_date_timestamp

Spec == Init /\ [][Next]_vars

---------------------------------------------------------------------------
(* Reading a returned string back: what the properties are stated with.     *)

IsDigit(c) == \E i \in 1..10 : DigitChars[i] = c

DigitValue(c) == (CHOOSE i \in 1..10 : DigitChars[i] = c) - 1

AllDigits(s) == \A i \in 1..Len(s) : IsDigit(s[i])

RECURSIVE ToNumber(_)
\* the number a non-empty sequence of digits writes
ToNumber(s) ==
    IF Len(s) = 1 THEN DigitValue(s[1])
    ELSE 10 * ToNumber(SubSeq(s, 1, Len(s) - 1)) + DigitValue(s[Len(s)])

Contains(s, c) == \E i \in 1..Len(s) : s[i] = c

\* the place of the first c in s, 0 when there is none
IndexOf(s, c) ==
    IF Contains(s, c) THEN CHOOSE i \in 1..Len(s) : s[i] = c /\ \A j \in 1..(i - 1) : s[j] # c
    ELSE 0

EndsWith(s, c) == Len(s) > 0 /\ s[Len(s)] = c

\* s without a final "Z"
WithoutZ(s) == IF EndsWith(s, "Z") THEN SubSeq(s, 1, Len(s) - 1) ELSE s

\* the text between the "." of a timestamp and its end (or its "Z")
MsField(s) == WithoutZ(SubSeq(s, IndexOf(s, ".") + 1, Len(s)))

\* the text of a timestamp in front of its "."
BeforeDot(s) == SubSeq(s, 1, IndexOf(s, ".") - 1)

\* YYYY-MM-DD
DateShape(s) ==
    /\ Len(s) = 10
    /\ AllDigits(SubSeq(s, 1, 4)) /\ s[5] = "-"
    /\ AllDigits(SubSeq(s, 6, 7)) /\ s[8] = "-"
    /\ AllDigits(SubSeq(s, 9, 10))

\* YYYY-MM-DDTHH:MM:SS
DateTimeShape(s) ==
    /\ Len(s) = 19
    /\ DateShape(SubSeq(s, 1, 10)) /\ s[11] = "T"
    /\ AllDigits(SubSeq(s, 12, 13)) /\ s[14] = ":"
    /\ AllDigits(SubSeq(s, 15, 16)) /\ s[17] = ":"
    /\ AllDigits(SubSeq(s, 18, 19))

\* the day number of a proleptic Gregorian date
DaysFromCivil(y, m, d) ==
    LET yy  == IF m <= 2 THEN y - 1 ELSE y
        era == yy \div 400
        yoe == yy - era * 400
        mp  == IF m > 2 THEN m - 3 ELSE m + 9
        doy == ((153 * mp + 2) \div 5) + d - 1
        doe == yoe * 365 + (yoe \div 4) - (yoe \div 100) + doy
    IN  era * 146097 + doe - 719468

\* The time_t a text "Y..Y-MM-DDTHH:MM:SS" denotes, read as a UTC date-time;
\* the year is whatever stands in front of the last 15 characters.
ParseDateTime(s) ==
    LET n  == Len(s)
        y  == ToNumber(SubSeq(s, 1, n - 15))
        mo == ToNumber(SubSeq(s, n - 13, n - 12))
        dd == ToNumber(SubSeq(s, n - 10, n - 9))
        hh == ToNumber(SubSeq(s, n - 7, n - 6))
        mi == ToNumber(SubSeq(s, n - 4, n - 3))
        ss == ToNumber(SubSeq(s, n - 1, n))
    IN  [d |-> DaysFromCivil(y, mo, dd), s |-> hh * 3600 + mi * 60 + ss]

\* a - b in seconds, for two time_t values less than some days apart
SecondsBetween(a, b) == (a.d - b.d) * SecondsPerDay + (a.s - b.s)

\* whether the conversion the entry point op uses succeeded
Converted(op) == IF op \in UtcOps THEN conv_ok.utc ELSE conv_ok.local

\* the calendar year the entry point op renders for the instant arg
RenderedYear(op) ==
    LET t == to_time_t(Value(arg))
    IN  CivilFromDays(
            (IF op \in UtcOps THEN t ELSE AddSeconds(t, UtcOffset(tz, t))).d)[1]

\* the instant of the specification's end-to-end example, 2024-01-05T03:04:05.006Z
ExampleInstant == Some(TimePoint([d |-> 19727, s |-> 11045], 6))

---------------------------------------------------------------------------
(* Claims checked under Spec *)

\* C1 (as claimed): the millisecond field of a date-timestamp is exactly 3
\* decimal digits whose value is the non-negative remainder of the instant's
\* epoch-milliseconds modulo 1000, also for instants before the epoch.
C1_MillisecondFieldIsNonNegativeRemainder ==
    \A op \in TimestampOps :
        out[op].called =>
            LET f == MsField(out[op].str)
            IN  /\ Len(f) = 3
                /\ AllDigits(f)
                /\ ToNumber(f) = arg.ms % MsPerSecond

\* C2 (as claimed): when the calendar conversion fails, no entry point returns
\* a string.
C2_NoStringWhenConversionFails ==
    \A op \in Ops : ~Converted(op) => ~out[op].called

\* The fixed widths of the calendar part: YYYY-MM-DD for the dates (10
\* characters), YYYY-MM-DDTHH:MM:SS for the local date-time (19), the same and
\* one character more for the UTC date-time (20), and the 19 characters in
\* front of the "." of a date-timestamp.
CalendarWidthsFixed(op) ==
    LET s == out[op].str
    IN  CASE op \in DateOps -> DateShape(s)
          [] op = "get_current_iso_date_time" -> DateTimeShape(s)
          [] op = "get_current_utc_iso_date_time" ->
                Len(s) = 20 /\ DateTimeShape(SubSeq(s, 1, 19))
          [] OTHER -> Len(s) > 19 /\ DateTimeShape(SubSeq(s, 1, 19)) /\ s[20] = "."

C5_DateTimeIsTimestampPrefix ==
    (out["get_current_iso_date_time"].called /\ out["get_current_iso_date_timestamp"].called)
        => LET dt == out["get_current_iso_date_time"].str
               ts == out["get_current_iso_date_timestamp"].str
           IN  /\ IndexOf(ts, ".") = Len(dt) + 1
               /\ BeforeDot(ts) = dt
               /\ ~Contains(dt, ".")
               /\ MsField(ts) = SubSeq(ts, Len(dt) + 2, Len(ts))
               /\ Len(MsField(ts)) >= 3
               /\ ~Contains(MsField(ts), ".")

C5_Witness ==
    /\ arg = ExampleInstant /\ tz.name = "east_0530" /\ conv_ok.local
    /\ out["get_current_iso_date_time"].called
    /\ out["get_current_iso_date_timestamp"].called
    /\ out["get_current_iso_date_timestamp"].str =
         <<"2","0","2","4","-","0","1","-","0","5","T","0","8",":","3","4",":","0","5",
           ".","0","0","6">>

C10_UtcTimestampDenotesTheInstant ==
    (out["get_current_utc_iso_date_timestamp"].called /\ conv_ok.utc)
        => LET s == out["get_current_utc_iso_date_timestamp"].str
               f == MsField(s)
           IN  /\ ParseDateTime(BeforeDot(s)) = [d |-> arg.d, s |-> arg.ms \div MsPerSecond]
               /\ AllDigits(f)
               /\ ToNumber(f) = arg.ms % MsPerSecond

---------------------------------------------------------------------------
(* Specification SpecClock: the six entry points without a parameter called *)
(* one after the other while the system clock moves on.  The last two calls *)
(* are kept.                                                                 *)

InitClock ==
    /\ clock \in ClockSamples
    /\ tz \in Zones
    /\ conv_ok = [local |-> TRUE, utc |-> TRUE]
    /\ arg = nullopt
    /\ out = [op \in Ops |-> NotCalled]
    /\ prev = NoCall
    /\ last = NoCall
    /\ pc = << >>
    /\ job = << >>
    /\ now = << >>
    /\ tmbuf = << >>
    /\ ret = << >>

\* time passes: the clock does not go backwards
TimePasses(samples) ==
    /\ \E c \in samples : c # clock /\ TpLeq(clock, c) /\ clock' = c
    /\ UNCHANGED <<tz, conv_ok, arg, out, prev, last, pc, job, now, tmbuf, ret>>

ClockAdvance == TimePasses(ClockSamples)

Made(entry, op, a, r) ==
    /\ prev' = last
    /\ last' = [entry |-> entry, op |-> op, arg |-> a, reads |-> r.reads, str |-> r.str,
                at |-> clock]
    /\ UNCHANGED <<clock, tz, conv_ok, arg, out, pc, job, now, tmbuf, ret>>

Now_get_current_iso_date ==
    Made("get_current_iso_date()", "get_current_iso_date", nullopt,
         get_current_iso_date_noarg)

Now_get_current_iso_date_time ==
    Made("get_current_iso_date_time()", "get_current_iso_date_time", nullopt,
         get_current_iso_date_time_noarg)

Now_get_current_iso_date_timestamp ==
    Made("get_current_iso_date_timestamp()", "get_current_iso_date_timestamp", nullopt,
         get_current_iso_date_timestamp_noarg)

Now_get_current_utc_iso_date ==
    Made("get_current_utc_iso_date()", "get_current_utc_iso_date", nullopt,
         get_current_utc_iso_date_noarg)

Now_get_current_utc_iso_date_time ==
    Made("get_current_utc_iso_date_time()", "get_current_utc_iso_date_time", nullopt,
         get_current_utc_iso_date_time_noarg)

Now_get_current_utc_iso_date_timestamp ==
    Made("get_current_utc_iso_date_timestamp()", "get_current_utc_iso_date_timestamp", nullopt,
         get_current_utc_iso_date_timestamp_noarg)

NextClock ==
    \/ ClockAdvance
    \/ Now_get_current_iso_date
    \/ Now_get_current_iso_date_time
    \/ Now_get_current_iso_date_timestamp
    \/ Now_get_current_utc_iso_date
    \/ Now_get_current_utc_iso_date_time
    \/ Now_get_current_utc_iso_date_timestamp

SpecClock == InitClock /\ [][NextClock]_vars

---------------------------------------------------------------------------
(* Specification SpecReads: the twelve entry points, those with a parameter *)
(* given an instant or an empty optional, called one after the other while  *)
(* the system clock moves on.  The last two calls are kept.                 *)

InitReads ==
    /\ clock \in ReadsClockSamples
    /\ tz \in {z \in Zones : z.name \in {"utc", "summer_0100"}}
    /\ conv_ok = [local |-> TRUE, utc |-> TRUE]
    /\ arg = nullopt
    /\ out = [op \in Ops |-> NotCalled]
    /\ prev = NoCall
    /\ last = NoCall
    /\ pc = << >>
    /\ job = << >>
    /\ now = << >>
    /\ tmbuf = << >>
    /\ ret = << >>

ClockAdvanceReads == TimePasses(ReadsClockSamples)

Opt_get_current_iso_date ==
    \E a \in ClockArgs :
        Made("get_current_iso_date(optional)", "get_current_iso_date", a,
             get_current_iso_date(a))

Opt_get_current_iso_date_time ==
    \E a \in ClockArgs :
        Made("get_current_iso_date_time(optional)", "get_current_iso_date_time", a,
             get_current_iso_date_time(a))

Opt_get_current_iso_date_timestamp ==
    \E a \in ClockArgs :
        Made("get_current_iso_date_timestamp(optional)", "get_current_iso_date_timestamp", a,
             get_current_iso_date_timestamp(a))

Opt_get_current_utc_iso_date ==
    \E a \in ClockArgs :
        Made("get_current_utc_iso_date(optional)", "get_current_utc_iso_date", a,
             get_current_utc_iso_date(a))

Opt_get_current_utc_iso_date_time ==
    \E a \in ClockArgs :
        Made("get_current_utc_iso_date_time(optional)", "get_current_utc_iso_date_time", a,
             get_current_utc_iso_date_time(a))

Opt_get_current_utc_iso_date_timestamp ==
    \E a \in ClockArgs :
        Made("get_current_utc_iso_date_timestamp(optional)",
             "get_current_utc_iso_date_timestamp", a,
             get_current_utc_iso_date_timestamp(a))

NextReads ==
    \/ ClockAdvanceReads
    \/ Now_get_current_iso_date
    \/ Now_get_current_iso_date_time
    \/ Now_get_current_iso_date_timestamp
    \/ Now_get_current_utc_iso_date
    \/ Now_get_current_utc_iso_date_time
    \/ Now_get_current_utc_iso_date_timestamp
    \/ Opt_get_current_iso_date
    \/ Opt_get_current_iso_date_time
    \/ Opt_get_current_iso_date_timestamp
    \/ Opt_get_current_utc_iso_date
    \/ Opt_get_current_utc_iso_date_time
    \/ Opt_get_current_utc_iso_date_timestamp

SpecReads == InitReads /\ [][NextReads]_vars

---------------------------------------------------------------------------
(* Claims checked under SpecClock (C6) and SpecReads (C7) *)

\* the code of a character, for the comparison of std::string
Ord(c) ==
    CASE c = "-" -> 45
      [] c = "." -> 46
      [] c = ":" -> 58
      [] c = "T" -> 84
      [] c = "Z" -> 90
      [] OTHER   -> 48 + DigitValue(c)

RECURSIVE StrLeq(_, _)
\* a <= b as std::string compares: by the first character that differs, a
\* proper prefix being the smaller
StrLeq(a, b) ==
    IF a = << >> THEN TRUE
    ELSE IF b = << >> THEN FALSE
    ELSE IF Ord(Head(a)) # Ord(Head(b)) THEN Ord(Head(a)) < Ord(Head(b))
    ELSE StrLeq(Tail(a), Tail(b))

NoArgEntries ==
    { "get_current_iso_date()", "get_current_iso_date_time()",
      "get_current_iso_date_timestamp()", "get_current_utc_iso_date()",
      "get_current_utc_iso_date_time()", "get_current_utc_iso_date_timestamp()" }

\* the last two calls were of the same entry point without a parameter
SameNoArgEntryTwice == prev.entry \in NoArgEntries /\ last.entry = prev.entry

\* the local UTC offset in effect at a time_point
OffsetAt(tp) == UtcOffset(tz, to_time_t(tp))

\* the calendar year op renders for the time_point tp
YearAt(op, tp) ==
    LET t == to_time_t(tp)
    IN  CivilFromDays((IF op \in UtcOps THEN t ELSE AddSeconds(t, OffsetAt(tp))).d)[1]

C7_ClockReadOnceOnlyWithoutInstant ==
    /\ \A c \in {prev, last} :
          c.entry # "none" => c.reads = (IF c.arg.has THEN 0 ELSE 1)
    /\ (prev.op = last.op /\ prev.arg.has /\ prev.arg = last.arg) => prev.str = last.str

C7_Witness ==
    /\ prev.op = last.op /\ prev.op = "get_current_iso_date_timestamp"
    /\ prev.arg.has /\ prev.arg = last.arg
    /\ prev.at # last.at
    /\ prev.reads = 0 /\ last.reads = 0
    /\ prev.str = last.str

\* the other half of C7's case: calls without an instant, one read each
C7_WitnessNoInstant ==
    /\ prev.entry = "get_current_utc_iso_date_time()" /\ prev.reads = 1
    /\ last.entry = "get_current_utc_iso_date_time(optional)" /\ ~last.arg.has
    /\ last.reads = 1

---------------------------------------------------------------------------
(* Specification SpecThreads: threads inside the entry points at the same   *)
(* time.  A call enters (it resolves its instant, takes the seconds and has *)
(* the conversion fill a std::tm), renders the std::tm into its stream, and *)
(* returns.                                                                  *)

Threads == 1..NThreads

\* the one buffer of a conversion that is not re-entrant (localtime, gmtime)
SharedTm(th) == 0

\* the std::tm the conversion of thread th fills: "std::tm tm{}", an object of
\* the call's own, handed to localtime_r / gmtime_r
TmOwner(th) == th

ThreadArgs == { ExampleInstant, Some(TimePoint([d |-> -1, s |-> 86399], 993)) }

Idle == [op |-> "none", arg |-> nullopt]

InitThreads ==
    /\ clock = TimePoint([d |-> 0, s |-> 0], 0)
    /\ tz \in {z \in Zones : z.name = "east_0530"}
    /\ conv_ok = [local |-> TRUE, utc |-> TRUE]
    /\ arg = nullopt
    /\ out = [op \in Ops |-> NotCalled]
    /\ prev = NoCall
    /\ last = NoCall
    /\ pc = [th \in Threads |-> "idle"]
    /\ job = [th \in Threads |-> Idle]
    /\ now = [th \in Threads |-> clock]
    /\ tmbuf = [o \in 0..NThreads |-> ZeroTm]
    /\ ret = [th \in Threads |-> << >>]

\* the first three statements of an entry point
Enter(th) ==
    /\ pc[th] = "idle"
    /\ \E op \in Ops, a \in ThreadArgs :
          LET r       == get_input_time_point_or_current_system_time(a)
              seconds == to_time_t(r.tp)
          IN  /\ job' = [job EXCEPT ![th] = [op |-> op, arg |-> a]]
              /\ now' = [now EXCEPT ![th] = r.tp]
              /\ tmbuf' = [tmbuf EXCEPT ![TmOwner(th)] =
                              IF op \in UtcOps THEN to_utc_tm(seconds)
                              ELSE to_local_tm(seconds)]
    /\ pc' = [pc EXCEPT ![th] = "converted"]
    /\ UNCHANGED <<clock, tz, conv_ok, arg, out, prev, last, ret>>

\* what the entry point op writes into its stream
Rendered(op, tm, tp) ==
    CASE op = "get_current_iso_date" -> put_time_F(tm)
      [] op = "get_current_iso_date_time" -> put_time_FTHMS(tm)
      [] op = "get_current_iso_date_timestamp" ->
            put_time_FTHMS(tm) \o <<".">> \o get_formatted_milliseconds(MillisecondsOf(tp))
      [] op = "get_current_utc_iso_date" -> put_time_F(tm)
      [] op = "get_current_utc_iso_date_time" -> put_time_FTHMS(tm) \o <<"Z">>
      [] op = "get_current_utc_iso_date_timestamp" ->
            put_time_FTHMS(tm) \o <<".">> \o get_formatted_milliseconds(MillisecondsOf(tp))
                \o <<"Z">>

\* the stream is written from the std::tm and the string is built
Render(th) ==
    /\ pc[th] = "converted"
    /\ ret' = [ret EXCEPT ![th] = Rendered(job[th].op, tmbuf[TmOwner(th)], now[th])]
    /\ pc' = [pc EXCEPT ![th] = "done"]
    /\ UNCHANGED <<clock, tz, conv_ok, arg, out, prev, last, job, now, tmbuf>>

\* the caller has the string; the objects of the call are gone
Return(th) ==
    /\ pc[th] = "done"
    /\ pc' = [pc EXCEPT ![th] = "idle"]
    /\ job' = [job EXCEPT ![th] = Idle]
    /\ now' = [now EXCEPT ![th] = clock]
    /\ tmbuf' = [tmbuf EXCEPT ![TmOwner(th)] = ZeroTm]
    /\ ret' = [ret EXCEPT ![th] = << >>]
    /\ UNCHANGED <<clock, tz, conv_ok, arg, out, prev, last>>

NextThreads ==
    \E th \in Threads :
        \/ Enter(th)
        \/ Render(th)
        \/ Return(th)

SpecThreads == InitThreads /\ [][NextThreads]_vars

---------------------------------------------------------------------------
(* Claims checked under SpecThreads *)

\* the string the entry point op returns for a, the call running alone
RunAlone(op, a) ==
    CASE op = "get_current_iso_date" -> get_current_iso_date(a).str
      [] op = "get_current_iso_date_time" -> get_current_iso_date_time(a).str
      [] op = "get_current_iso_date_timestamp" -> get_current_iso_date_timestamp(a).str
      [] op = "get_current_utc_iso_date" -> get_current_utc_iso_date(a).str
      [] op = "get_current_utc_iso_date_time" -> get_current_utc_iso_date_time(a).str
      [] op = "get_current_utc_iso_date_timestamp" -> get_current_utc_iso_date_timestamp(a).str

\* C9: whatever the other threads do meanwhile, a call with an explicit instant
\* returns the string it returns when it runs alone; every call fills and
\* reads a std::tm of its own.
C9_ConcurrentCallReturnsItsOwnString ==
    \A th \in Threads :
        (pc[th] = "done" /\ job[th].arg.has)
            => ret[th] = RunAlone(job[th].op, job[th].arg)

\* two calls overlap: the second entered, with another instant and the other
\* conversion, between the first one's conversion and its rendering
C9_Witness ==
    /\ pc[1] = "done" /\ pc[2] = "converted"
    /\ job[1].op = "get_current_iso_date_timestamp" /\ job[1].arg = ExampleInstant
    /\ job[2].op = "get_current_utc_iso_date_timestamp" /\ job[2].arg # ExampleInstant
    /\ tmbuf[TmOwner(1)] # tmbuf[TmOwner(2)]
    /\ ret[1] = <<"2","0","2","4","-","0","1","-","0","5","T","0","8",":","3","4",":","0","5",
                  ".","0","0","6">>

===========================================================================
